---- MODULE Spec2Model ----
(***************************************************************************)
(* A model of scrapy/contrib/spiders/crawl.py: the Rule constructor, the   *)
(* rule compiler of CrawlSpider, the dispatcher (parse), the link          *)
(* collector (_requests_to_follow) and the result assembler                *)
(* (_response_downloaded).                                                 *)
(*                                                                         *)
(* Python values are tagged records [kind, id]:                            *)
(*   kind "none"  the value None                                           *)
(*   kind "func"  a callable (a function or a bound method), named id      *)
(*   kind "str"   the string id                                            *)
(*   kind "data"  a spider attribute that is neither callable nor a string *)
(* Dictionaries are objects: a rule holds a reference (an index into heap) *)
(* and heap holds the contents, so that sharing is visible.                *)
(***************************************************************************)
EXTENDS Integers, Sequences, FiniteSets, TLC

VARIABLES
    heap,          \* the dict objects: heap[ref] is the contents of dict ref
    declared,      \* the Rule(...) calls of the class body: their arguments
    rules,         \* CrawlSpider.rules: the class-level tuple of Rule objects
    _rules,  \* self._rules of each spider instance
    constructed,   \* the spider instances whose __init__ has run
    settings,      \* the CRAWLSPIDER_FOLLOW_LINKS setting
    hook,          \* which process_results the spider class defines
    mutations,     \* how many writes to compiled rules have been made
    last,          \* what the most recent call of a handler did and returned
    running        \* the calls of _requests_to_follow in progress: their locals

vars == <<heap, declared, rules, _rules, constructed, settings, hook,
         mutations, last, running>>

----------------------------------------------------------------------------
(* Bounds *)

MaxRules == 2      \* rules per spider class
MaxLinks == 2      \* links on one page
MaxMutations == 1  \* writes to compiled rules in one run

----------------------------------------------------------------------------
(* Python values *)

None == [kind |-> "none", id |-> ""]
Func(n) == [kind |-> "func", id |-> n]
Str(n) == [kind |-> "str", id |-> n]
Data(n) == [kind |-> "data", id |-> n]

\* The spider class: a subclass of CrawlSpider with four methods and two
\* data attributes, one of them falsy (an empty list).
SpiderMethods ==
    {"parse_item", "parse_nothing", "parse_empty", "parse_raise",
     "filter_links", "add_links", "bad_links"}
SpiderData == {"name", "start_urls"}
FalsyData == {"start_urls"}

\* bool(v)
Truthy(v) ==
    CASE v.kind = "none" -> FALSE
      [] v.kind = "func" -> TRUE
      [] v.kind = "str"  -> v.id # ""
      [] v.kind = "data" -> v.id \notin FalsyData

\* callable(v)
callable(v) == v.kind = "func"

\* isinstance(v, basestring)
IsString(v) == v.kind = "str"

\* getattr(self, name, None)
getattr(name) ==
    IF name \in SpiderMethods THEN Func(name)
    ELSE IF name \in SpiderData THEN Data(name)
    ELSE None

----------------------------------------------------------------------------
(* Dict objects *)

NoRef == 0                       \* the argument None where a dict is expected
EmptyDict == <<>>
Keys == {"k"}
KwVals == {1, 2}

\* The dict literals of the class body: heap[1] = {'k': 1} and heap[2] = {}.
ClassHeap == << [x \in {"k"} |-> 1], EmptyDict >>

DictTruthy(h, ref) == ref # NoRef /\ DOMAIN h[ref] # {}

----------------------------------------------------------------------------
(* Rule.__init__ *)

\* follow as given to the constructor: None, True or False.
FollowArgs == {"None", "True", "False"}

\* A variant of RuleInitFollow that forgets the callback.
RuleInitFollowAlwaysTrue(callback, follow) ==
    IF follow = "None" THEN TRUE ELSE follow = "True"

\* lines 37-40
RuleInitFollow(callback, follow) ==
    IF follow = "None"
    THEN (IF Truthy(callback) THEN FALSE ELSE TRUE)
    ELSE follow = "True"

\* Rule.__init__: the new Rule object and the heap after the call
\* (cb_kwargs or {} allocates a new dict when the argument is None or empty).
RuleInit(h, a) ==
    LET fresh == ~DictTruthy(h, a.cb_kwargs)
        ref == IF fresh THEN Len(h) + 1 ELSE a.cb_kwargs
    IN [rule |-> [link_extractor |-> a.link_extractor,
                  callback |-> a.callback,
                  cb_kwargs |-> ref,
                  process_links |-> a.process_links,
                  follow |-> RuleInitFollow(a.callback, a.follow)],
        heap |-> IF fresh THEN Append(h, EmptyDict) ELSE h]

----------------------------------------------------------------------------
(* CrawlSpider._compile_rules *)

\* A variant of get_method that looks no name up.
get_method_no_lookup(method) ==
    IF callable(method) THEN method ELSE None

\* get_method, lines 116-120; a value that is neither callable nor a string
\* falls off the end of the function, which returns None.
get_method(method) ==
    IF callable(method) THEN method
    ELSE IF IsString(method) THEN getattr(method.id)
    ELSE None

\* A variant of _compile_rules that works follow out again from the callback
\* it resolved.
_compile_rules_refollow(rs) ==
    [k \in DOMAIN rs |->
        [rs[k] EXCEPT !.callback = get_method(rs[k].callback),
                      !.process_links = get_method(rs[k].process_links),
                      !.follow = ~Truthy(get_method(rs[k].callback))]]

\* lines 122-125: copy.copy of each rule (a shallow copy: the copy has its own
\* fields, and its cb_kwargs is the template's dict), then the two lookups.
_compile_rules(rs) ==
    [k \in DOMAIN rs |->
        [rs[k] EXCEPT !.callback = get_method(rs[k].callback),
                      !.process_links = get_method(rs[k].process_links)]]

----------------------------------------------------------------------------
(* Links, responses and link extractors *)

Urls == {"/a/x", "/b/y"}

\* A Link object: compared and hashed by its url and text.
Link(u) == [url |-> u, text |-> IF u = "/a/x" THEN "x" ELSE "y"]
Links == {Link(u) : u \in Urls}

RECURSIVE SeqsUpTo(_, _)
SeqsUpTo(S, n) ==
    IF n = 0 THEN {<<>>}
    ELSE LET shorter == SeqsUpTo(S, n - 1)
         IN shorter \cup {Append(s, x) : s \in shorter, x \in S}

\* A response: its url and the links of its page, in page order; a page may
\* hold the same link more than once.
Responses == [url : Urls, links : SeqsUpTo(Links, MaxLinks)]

\* Two link extractors: le_a is in scope for /a, le_ab for /a and /b.
Extractors == {"le_a", "le_ab"}
Scope(le) == IF le = "le_a" THEN {"/a/x"} ELSE {"/a/x", "/b/y"}

\* link_extractor.matches(url)
matches(le, url) == url \in Scope(le)

\* link_extractor.extract_urls(response): the links of the page that are in
\* scope, in page order.
extract_urls(le, response) ==
    LET InScope(l) == l.url \in Scope(le)
    IN SelectSeq(response.links, InScope)

\* The extractor le_bad raises when it is asked for the links of a response.
ExtractRaises(le) == le = "le_bad"

Range(s) == {s[i] : i \in DOMAIN s}

----------------------------------------------------------------------------
(* Calls of the spider's functions *)

FreshEmpty == -1                 \* a reference to the new dict of cb_kwargs={}
Deref(h, ref) == IF ref = FreshEmpty THEN EmptyDict ELSE h[ref]

Item(n, response, kwargs) ==
    [type |-> "item", id |-> n, url |-> response.url, kwargs |-> kwargs]

\* The errors of a call: none, the TypeError of calling a value that is not
\* callable, and the error a function of the spider or an extractor raises.
NoError == ""
TypeError == "TypeError"
ErrorOf(name) == <<"error of", name>>

\* callback(response, **cb_kwargs): calling a value that is not callable raises
\* TypeError. parse_item returns two items, parse_empty returns an empty list,
\* parse_raise raises its error, parse_nothing returns None.
CallCallback(f, response, kwargs) ==
    IF ~callable(f)
    THEN [raised |-> TRUE, error |-> TypeError, value |-> <<>>, none |-> FALSE]
    ELSE IF f.id = "parse_raise"
    THEN [raised |-> TRUE, error |-> ErrorOf(f.id), value |-> <<>>, none |-> FALSE]
    ELSE IF f.id = "parse_item"
    THEN [raised |-> FALSE, error |-> NoError, none |-> FALSE,
          value |-> <<Item("I1", response, kwargs), Item("I2", response, kwargs)>>]
    ELSE IF f.id = "parse_empty"
    THEN [raised |-> FALSE, error |-> NoError, none |-> FALSE, value |-> <<>>]
    ELSE [raised |-> FALSE, error |-> NoError, value |-> <<>>, none |-> TRUE]

\* rule.process_links(links): filter_links drops the first link, add_links
\* adds the link to /a/x at the end, bad_links raises its error.
CallProcessLinks(f, links) ==
    IF ~callable(f) THEN [raised |-> TRUE, error |-> TypeError, value |-> <<>>]
    ELSE IF f.id = "bad_links"
    THEN [raised |-> TRUE, error |-> ErrorOf(f.id), value |-> <<>>]
    ELSE IF f.id = "filter_links"
    THEN [raised |-> FALSE, error |-> NoError, value |-> Tail(links)]
    ELSE IF f.id = "add_links"
    THEN [raised |-> FALSE, error |-> NoError,
          value |-> Append(links, Link("/a/x"))]
    ELSE [raised |-> FALSE, error |-> NoError, value |-> links]

Hooks == {"default", "keep_last"}

\* self.process_results(results, response): the default returns its argument
\* (line 76); keep_last is the override of a subclass.
process_results(hk, results, response) ==
    IF hk = "keep_last"
    THEN (IF results = <<>> THEN <<>> ELSE <<results[Len(results)]>>)
    ELSE results

\* settings.getbool(name, default): the default when the setting is unset.
SettingValues == {"unset", "True", "False"}
getbool(value, default) == IF value = "unset" THEN default ELSE value = "True"

----------------------------------------------------------------------------
(* CrawlSpider._requests_to_follow *)

\* A variant of FilterSeen that filters nothing.
FilterSeenOff(extracted, seen) == extracted

\* line 87: the links of the extractor that are not in seen
FilterSeen(extracted, seen) ==
    LET Unseen(l) == l \notin seen
    IN SelectSeq(extracted, Unseen)

\* A variant of SeenAfter that forgets the links of the rule.
SeenAfterKeep(seen, links) == seen

\* line 90
SeenAfter(seen, links) == seen \cup Range(links)

\* A variant of BuildRequest that always follows.
BuildRequestFollowTrue(link, rule) ==
    [type |-> "request", url |-> link.url, link_text |-> link.text,
     callback |-> rule.callback, cb_kwargs |-> rule.cb_kwargs, follow |-> TRUE]

\* lines 92-93: the request of one link, with the rule's continuation
BuildRequest(link, rule) ==
    [type |-> "request", url |-> link.url, link_text |-> link.text,
     callback |-> rule.callback, cb_kwargs |-> rule.cb_kwargs,
     follow |-> rule.follow]

\* A variant of Claimed that claims what went into the processor.
ClaimedInput(candidates, links) == candidates

\* lines 88-90: links is rebound to the output of process_links before
\* seen.union(links), so the rule claims its resulting list
Claimed(candidates, links) == links

\* A variant of AppendRequests that puts the new requests first.
PrependRequests(requests, new) == new \o requests

\* lines 91-94: requests.append(r) for each link of the rule, in the order of
\* the rule's list
AppendRequests(requests, new) == requests \o new

\* One pass of the loop body, lines 87-94, for rule k. st holds requests and
\* seen, and, as a record of the run, what each rule extracted, kept as
\* candidates and ended with, and the rule that built each request.
CollectStep(rs, response, k, st) ==
    LET rule == rs[k]
        extracted == extract_urls(rule.link_extractor, response)
        candidates == FilterSeen(extracted, st.seen)
        run_pl == candidates # <<>> /\ Truthy(rule.process_links)
        pl == IF run_pl THEN CallProcessLinks(rule.process_links, candidates)
              ELSE [raised |-> FALSE, error |-> NoError, value |-> candidates]
        links == pl.value
    IN IF ExtractRaises(rule.link_extractor)
       THEN [st EXCEPT !.raised = TRUE,
                       !.error = ErrorOf(rule.link_extractor),
                       !.trace = Append(@, [extracted |-> <<>>,
                                            candidates |-> <<>>,
                                            pl_called |-> FALSE,
                                            links |-> <<>>])]
       ELSE IF pl.raised
       THEN [st EXCEPT !.raised = TRUE, !.error = pl.error,
                       !.trace = Append(@, [extracted |-> extracted,
                                            candidates |-> candidates,
                                            pl_called |-> TRUE,
                                            links |-> <<>>])]
       ELSE [requests |-> AppendRequests(st.requests,
                              [i \in DOMAIN links |-> BuildRequest(links[i], rule)]),
             owners |-> st.owners \o [i \in DOMAIN links |-> k],
             seen |-> SeenAfter(st.seen, Claimed(candidates, links)),
             raised |-> FALSE, error |-> NoError,
             trace |-> Append(st.trace, [extracted |-> extracted,
                                         candidates |-> candidates,
                                         pl_called |-> run_pl,
                                         links |-> links])]

RECURSIVE CollectFrom(_, _, _, _)
CollectFrom(rs, response, k, st) ==
    IF k > Len(rs) \/ st.raised THEN st
    ELSE CollectFrom(rs, response, k + 1, CollectStep(rs, response, k, st))

NoCollect ==
    [requests |-> <<>>, owners |-> <<>>, seen |-> {}, raised |-> FALSE,
     error |-> NoError, trace |-> <<>>]

\* A variant of SeenAtStart that keeps the seen set of the call before.
SeenAtStartKept(before) == before

\* line 85: seen = set(), whatever seen the call before ended with
SeenAtStart(before) == {}

\* lines 84-95, in a spider whose call before this one ended with the seen
\* set before
_requests_to_follow_after(rs, response, before) ==
    CollectFrom(rs, response, 1, [NoCollect EXCEPT !.seen = SeenAtStart(before)])

\* lines 84-95
_requests_to_follow(rs, response) == _requests_to_follow_after(rs, response, {})

----------------------------------------------------------------------------
(* CrawlSpider._response_downloaded *)

\* line 108: callback(...) or ()
OrEmpty(call) == IF call.none THEN <<>> ELSE call.value

\* A variant of Assemble with the two extends in the other order.
AssembleResultsFirst(requests, results) == results \o requests

\* lines 103-111: res is extended with the requests, then with the results
Assemble(requests, results) == requests \o results

\* A variant of FollowEnabled that does not read the setting.
FollowEnabledIgnoreSetting(follow, setting) == follow

\* line 105
FollowEnabled(follow, setting) == follow /\ getbool(setting, TRUE)

\* A variant of HookInput that hands over the requests too.
HookInputWholeBatch(requests, cb_res) == requests \o cb_res

\* line 109: what process_results is given as results
HookInput(requests, cb_res) == cb_res

\* A variant of HookRuns that skips the hook when there are no results.
HookRunsOnResults(do_cb, call) ==
    do_cb /\ ~call.raised /\ ~call.none /\ call.value # <<>>

\* lines 107-109: process_results is called whenever the callback was called
\* and returned, whatever it returned
HookRuns(do_cb, call) == do_cb /\ ~call.raised

\* A variant of Raised that swallows what the callback raises.
RaisedInCollector(col, call) ==
    IF col.raised THEN [raised |-> TRUE, error |-> col.error]
    ELSE [raised |-> FALSE, error |-> NoError]

\* lines 106 and 108: no try around either call, so what the collector (an
\* extractor, a link processor) or the callback raises leaves the method
Raised(col, call) ==
    IF col.raised THEN [raised |-> TRUE, error |-> col.error]
    ELSE IF call.raised THEN [raised |-> TRUE, error |-> call.error]
    ELSE [raised |-> FALSE, error |-> NoError]

\* lines 97-111. The record holds the returned list res (when raised is
\* FALSE) and what the call did on the way to it.
_response_downloaded(h, rs, setting, hk, response, callback, cb_kwargs, follow) ==
    LET do_follow == FollowEnabled(follow, setting)
        col == IF do_follow THEN _requests_to_follow(rs, response) ELSE NoCollect
        do_cb == ~col.raised /\ Truthy(callback)
        call == IF do_cb THEN CallCallback(callback, response, Deref(h, cb_kwargs))
                ELSE [raised |-> FALSE, error |-> NoError, value |-> <<>>,
                      none |-> FALSE]
        cb_res == OrEmpty(call)
        pr_called == HookRuns(do_cb, call)
        pr_in == HookInput(col.requests, cb_res)
        pr_out == IF pr_called THEN process_results(hk, pr_in, response) ELSE <<>>
        out == Raised(col, call)
        raised == out.raised
    IN [response |-> response, callback |-> callback, cb_kwargs |-> cb_kwargs,
        follow |-> follow,
        collected |-> do_follow, col |-> col,
        called |-> do_cb, kwargs |-> IF do_cb THEN Deref(h, cb_kwargs) ELSE EmptyDict,
        cb_none |-> call.none, cb_res |-> cb_res,
        pr_called |-> pr_called,
        pr_in |-> IF pr_called THEN pr_in ELSE <<>>,
        pr_response |-> IF pr_called THEN response ELSE [url |-> "", links |-> <<>>],
        pr_out |-> pr_out,
        raised |-> raised, error |-> out.error,
        res |-> IF raised THEN <<>> ELSE Assemble(col.requests, pr_out)]

----------------------------------------------------------------------------
(* CrawlSpider.parse *)

\* A variant of ParseRule that does not look at the callback.
ParseRuleAnyMatch(rs, url, k) == matches(rs[k].link_extractor, url)

\* line 65: the test of rule k
ParseRule(rs, url, k) ==
    Truthy(rs[k].callback) /\ matches(rs[k].link_extractor, url)

\* lines 64-67: the index of the rule parse returns from, 0 when the loop ends
ParseSelect(rs, url) ==
    LET hits == {k \in DOMAIN rs : ParseRule(rs, url, k)}
    IN IF hits = {} THEN 0 ELSE CHOOSE k \in hits : \A j \in hits : k <= j

\* A variant of ParseFollow that passes the follow flag of the rule.
ParseFollowOfRule(rule_follow) == rule_follow

\* lines 66 and 67: follow=True, whatever the follow flag of the rule is
ParseFollow(rule_follow) == TRUE

\* lines 64-67
parse(h, rs, setting, hk, response) ==
    LET k == ParseSelect(rs, response.url)
    IN IF k = 0
       THEN _response_downloaded(h, rs, setting, hk, response, None, FreshEmpty,
                                 ParseFollow(TRUE))
       ELSE _response_downloaded(h, rs, setting, hk, response,
                               rs[k].callback, rs[k].cb_kwargs,
                               ParseFollow(rs[k].follow))

----------------------------------------------------------------------------
(* The class body and the construction of a spider *)

Instances == {1, 2}

RECURSIVE DeclareFrom(_, _, _, _)
\* The Rule(...) calls of the class body, in order: the tuple of rules and the
\* heap after them.
DeclareFrom(h, body, k, rs) ==
    IF k > Len(body) THEN [rules |-> rs, heap |-> h]
    ELSE LET made == RuleInit(h, body[k])
         IN DeclareFrom(made.heap, body, k + 1, Append(rs, made.rule))

Declare(body) == DeclareFrom(ClassHeap, body, 1, <<>>)

NoResponse == [url |-> "", links |-> <<>>]
NoRequest ==
    [type |-> "none", url |-> "", link_text |-> "", callback |-> None,
     cb_kwargs |-> NoRef, follow |-> FALSE]

\* The call before the last one, where a run keeps it: none.
NoBefore == [response |-> NoResponse, requests |-> <<>>]

\* No handler has run yet.
NoCall ==
    [op |-> "none", via |-> NoRequest, before |-> NoBefore,
     response |-> NoResponse, callback |-> None, cb_kwargs |-> NoRef,
     follow |-> FALSE, collected |-> FALSE, col |-> NoCollect,
     called |-> FALSE, kwargs |-> EmptyDict, cb_none |-> FALSE, cb_res |-> <<>>,
     pr_called |-> FALSE, pr_in |-> <<>>, pr_response |-> NoResponse,
     pr_out |-> <<>>, raised |-> FALSE, error |-> NoError, res |-> <<>>]

Tagged(op, via, call) ==
    [op |-> op, via |-> via, before |-> NoBefore,
     response |-> call.response, callback |-> call.callback,
     cb_kwargs |-> call.cb_kwargs, follow |-> call.follow,
     collected |-> call.collected, col |-> call.col,
     called |-> call.called, kwargs |-> call.kwargs, cb_none |-> call.cb_none,
     cb_res |-> call.cb_res, pr_called |-> call.pr_called, pr_in |-> call.pr_in,
     pr_response |-> call.pr_response, pr_out |-> call.pr_out,
     raised |-> call.raised, error |-> call.error, res |-> call.res]

----------------------------------------------------------------------------
(* The crawl: one spider, the framework calls parse for a top-level        *)
(* response and redelivers the response of a request it was given.         *)

\* The Rule(...) calls a class body of the crawl is made of: a rule without a
\* callback, with the method parse_item (with or without keyword arguments) or
\* with the name of the data attribute start_urls; follow left out or given
\* against its default; no process_links.
CrawlArgs ==
    {a \in [link_extractor : Extractors,
            callback : {None, Str("parse_item"), Str("start_urls")},
            cb_kwargs : {NoRef, 1}, follow : FollowArgs,
            process_links : {None}] :
        /\ a.cb_kwargs # NoRef => a.callback = Str("parse_item")
        /\ a.follow # (IF a.callback = None THEN "True" ELSE "False")}

\* The pages of the crawl list each link at most once, in any order.
CrawlPages ==
    {p \in SeqsUpTo(Links, Cardinality(Links)) :
        \A i \in DOMAIN p : \A j \in DOMAIN p : i # j => p[i] # p[j]}

Init ==
    \E body \in SeqsUpTo(CrawlArgs, MaxRules), s \in SettingValues, hk \in Hooks :
        LET class == Declare(body)
        IN /\ declared = body
           /\ rules = class.rules
           /\ heap = class.heap
           /\ _rules = [i \in Instances |->
                                 IF i = 1 THEN _compile_rules(class.rules) ELSE <<>>]
           /\ constructed = {1}
           /\ settings = s
           /\ hook = hk
           /\ mutations = 0
           /\ last = NoCall
           /\ running = <<>>

\* The framework core calls spider.parse(response) for a start url (and again
\* after a call that raised; a call changes no state of the spider, so a
\* later call of parse returns what a first one does).
Parse(response) ==
    /\ last.op = "none" \/ last.raised
    /\ last' = [Tagged("parse", NoRequest,
                       parse(heap, _rules[1], settings, hook, response))
                EXCEPT !.before = IF last.raised
                                  THEN [response |-> last.response,
                                        requests |-> <<>>]
                                  ELSE NoBefore]
    /\ UNCHANGED <<heap, declared, rules, _rules, constructed, settings, hook,
                   mutations, running>>

\* The scheduler fetched a request of the last batch and runs its callback
\* chain: _response_downloaded(response, callback, cb_kwargs=..., follow=...).
Deliver(n, page) ==
    /\ ~last.raised
    /\ n \in DOMAIN last.res
    /\ last.res[n].type = "request"
    /\ LET r == last.res[n]
           response == [url |-> r.url, links |-> page]
       IN last' = Tagged("deliver", r,
                         _response_downloaded(heap, _rules[1], settings, hook,
                                            response, r.callback, r.cb_kwargs,
                                            r.follow))
    /\ UNCHANGED <<heap, declared, rules, _rules, constructed, settings, hook,
                   mutations, running>>

Next ==
    \/ \E url \in Urls, page \in CrawlPages : Parse([url |-> url, links |-> page])
    \/ \E n \in 1..(MaxRules * Cardinality(Links)), page \in CrawlPages :
          Deliver(n, page)

Spec == Init /\ [][Next]_vars

----------------------------------------------------------------------------
(* The crawl of spiders whose callbacks return items, nothing or None.     *)

\* The Rule(...) calls of these class bodies: no callback or one of the three
\* methods, follow left out or given against its default.
ResultArgs ==
    {a \in [link_extractor : {"le_ab"},
            callback : {None, Str("parse_item"), Str("parse_empty"),
                        Str("parse_nothing")},
            cb_kwargs : {NoRef}, follow : FollowArgs,
            process_links : {None}] :
        a.follow # (IF a.callback = None THEN "True" ELSE "False")}

InitResults ==
    \E body \in SeqsUpTo(ResultArgs, MaxRules), s \in SettingValues, hk \in Hooks :
        LET class == Declare(body)
        IN /\ declared = body
           /\ rules = class.rules
           /\ heap = class.heap
           /\ _rules = [i \in Instances |->
                                 IF i = 1 THEN _compile_rules(class.rules) ELSE <<>>]
           /\ constructed = {1}
           /\ settings = s
           /\ hook = hk
           /\ mutations = 0
           /\ last = NoCall
           /\ running = <<>>

SpecResults == InitResults /\ [][Next]_vars

----------------------------------------------------------------------------
(* The crawl of spiders whose extractors, link processors and callbacks    *)
(* may raise.                                                              *)

\* The Rule(...) calls of these class bodies: an extractor that works or one
\* that raises, with no callback, parse_item or a callback that raises; or
\* the working extractor with a link processor that raises.
FailArgs ==
    [link_extractor : {"le_ab", "le_bad"},
     callback : {None, Str("parse_item"), Str("parse_raise")},
     cb_kwargs : {NoRef}, follow : {"None"}, process_links : {None}]
    \cup
    [link_extractor : {"le_ab"}, callback : {None},
     cb_kwargs : {NoRef}, follow : {"None"},
     process_links : {Str("bad_links")}]

InitFail ==
    \E body \in SeqsUpTo(FailArgs, MaxRules) :
        LET class == Declare(body)
        IN /\ declared = body
           /\ rules = class.rules
           /\ heap = class.heap
           /\ _rules = [i \in Instances |->
                                 IF i = 1 THEN _compile_rules(class.rules) ELSE <<>>]
           /\ constructed = {1}
           /\ settings = "unset"
           /\ hook = "default"
           /\ mutations = 0
           /\ last = NoCall
           /\ running = <<>>

SpecFail == InitFail /\ [][Next]_vars

----------------------------------------------------------------------------
(* The collector alone: _requests_to_follow(response) on a spider whose    *)
(* rules have link processors.                                             *)

\* The Rule(...) calls of these class bodies: either extractor, and either no
\* processor, with or without the callback parse_item, or one of the two
\* processors and no callback.
CollectArgs ==
    [link_extractor : Extractors, callback : {None, Str("parse_item")},
     cb_kwargs : {NoRef}, follow : {"None"}, process_links : {None}]
    \cup
    [link_extractor : Extractors, callback : {None},
     cb_kwargs : {NoRef}, follow : {"None"},
     process_links : {Str("filter_links"), Str("add_links")}]

\* The most rules of a class body whose collector is called alone.
MaxCollectRules == 3

InitCollect ==
    \E body \in SeqsUpTo(CollectArgs, MaxCollectRules) :
        LET class == Declare(body)
        IN /\ declared = body
           /\ rules = class.rules
           /\ heap = class.heap
           /\ _rules = [i \in Instances |->
                                 IF i = 1 THEN _compile_rules(class.rules) ELSE <<>>]
           /\ constructed = {1}
           /\ settings = "unset"
           /\ hook = "default"
           /\ mutations = 0
           /\ last = NoCall
           /\ running = <<>>

\* spider._requests_to_follow(response)
Collect(response) ==
    /\ last.op = "none"
    /\ LET col == _requests_to_follow(_rules[1], response)
       IN last' = [NoCall EXCEPT !.op = "collect", !.response = response,
                                 !.collected = TRUE, !.col = col,
                                 !.raised = col.raised, !.error = col.error,
                                 !.res = col.requests]
    /\ UNCHANGED <<heap, declared, rules, _rules, constructed, settings, hook,
                   mutations, running>>

NextCollect == \E response \in Responses : Collect(response)

SpecCollect == InitCollect /\ [][NextCollect]_vars

----------------------------------------------------------------------------
(* The collector called twice on one spider.                               *)

InitTwice ==
    \E body \in SeqsUpTo(CollectArgs, MaxRules) :
        LET class == Declare(body)
        IN /\ declared = body
           /\ rules = class.rules
           /\ heap = class.heap
           /\ _rules = [i \in Instances |->
                                 IF i = 1 THEN _compile_rules(class.rules) ELSE <<>>]
           /\ constructed = {1}
           /\ settings = "unset"
           /\ hook = "default"
           /\ mutations = 0
           /\ last = NoCall
           /\ running = <<>>

\* spider._requests_to_follow(response), a second time: the same response or
\* another page of the same url.
CollectAgain(response) ==
    /\ last.op = "collect"
    /\ response.url = last.response.url
    /\ LET col == _requests_to_follow_after(_rules[1], response, last.col.seen)
       IN last' = [NoCall EXCEPT !.op = "collect again", !.response = response,
                                 !.collected = TRUE, !.col = col,
                                 !.raised = col.raised, !.error = col.error,
                                 !.res = col.requests,
                                 !.before = [response |-> last.response,
                                             requests |-> last.res]]
    /\ UNCHANGED <<heap, declared, rules, _rules, constructed, settings, hook,
                   mutations, running>>

NextTwice ==
    \/ \E response \in Responses : Collect(response)
    \/ \E response \in Responses : CollectAgain(response)

SpecTwice == InitTwice /\ [][NextTwice]_vars

----------------------------------------------------------------------------
(* Two calls of the collector on one spider, their loop passes             *)
(* interleaved.                                                            *)

Calls == {1, 2}

\* The Rule(...) calls of these class bodies: either extractor, with or
\* without a link processor, no callback.
InterleaveArgs ==
    [link_extractor : Extractors, callback : {None},
     cb_kwargs : {NoRef}, follow : {"None"},
     process_links : {None, Str("filter_links"), Str("add_links")}]

\* A call that has not begun.
NotBegun ==
    [at |-> "idle", response |-> NoResponse, k |-> 0, st |-> NoCollect,
     met |-> {}, res |-> <<>>]

InitInterleave ==
    \E body \in SeqsUpTo(InterleaveArgs, MaxRules) :
        LET class == Declare(body)
        IN /\ declared = body
           /\ rules = class.rules
           /\ heap = class.heap
           /\ _rules = [i \in Instances |->
                                 IF i = 1 THEN _compile_rules(class.rules) ELSE <<>>]
           /\ constructed = {1}
           /\ settings = "unset"
           /\ hook = "default"
           /\ mutations = 0
           /\ last = NoCall
           /\ running = [c \in Calls |-> NotBegun]

\* The seen sets of the calls in progress other than c.
SeenOfOthers(c) ==
    UNION {running[d].st.seen : d \in {d \in Calls \ {c} : running[d].at = "loop"}}

\* A variant of SeenOfCall where all calls in progress use one set.
SeenOfAllCalls(own, others) == own \cup others

\* lines 85, 87, 90: seen is a local name of the call, so a pass of the loop
\* reads and rebinds the set of its own call
SeenOfCall(own, others) == own

\* lines 84-85 of call c: requests = [], seen = set()
Begin(c, response) ==
    /\ running[c].at = "idle"
    /\ running' = [running EXCEPT ![c] =
                      [NotBegun EXCEPT !.at = "loop", !.response = response,
                                       !.k = 1]]
    /\ UNCHANGED <<heap, declared, rules, _rules, constructed, settings, hook,
                   mutations, last>>

\* lines 87-94 of call c, for the rule it has come to
Pass(c) ==
    /\ running[c].at = "loop"
    /\ running[c].k <= Len(_rules[1])
    /\ ~running[c].st.raised
    /\ LET me == running[c]
           seen == SeenOfCall(me.st.seen, SeenOfOthers(c))
           st == CollectStep(_rules[1], me.response, me.k,
                             [me.st EXCEPT !.seen = seen])
           candidates == Range(st.trace[me.k].candidates)
       IN running' = [running EXCEPT ![c] =
                         [me EXCEPT !.k = me.k + 1, !.st = st,
                                    !.met = @ \cup (candidates
                                                    \cap SeenOfOthers(c))]]
    /\ UNCHANGED <<heap, declared, rules, _rules, constructed, settings, hook,
                   mutations, last>>

\* line 95 of call c: return requests
Return(c) ==
    /\ running[c].at = "loop"
    /\ running[c].k > Len(_rules[1]) \/ running[c].st.raised
    /\ running' = [running EXCEPT ![c].at = "returned",
                                  ![c].res = running[c].st.requests]
    /\ UNCHANGED <<heap, declared, rules, _rules, constructed, settings, hook,
                   mutations, last>>

NextInterleave ==
    \/ \E c \in Calls, page \in CrawlPages :
          Begin(c, [url |-> "/a/x", links |-> page])
    \/ \E c \in Calls : Pass(c)
    \/ \E c \in Calls : Return(c)

SpecInterleave == InitInterleave /\ [][NextInterleave]_vars

----------------------------------------------------------------------------
(* The constructor of Rule alone.                                          *)

TemplateValues ==
    {None, Func("standalone"), Str("parse_item"), Str("name"), Str("start_urls"),
     Str("nope")}

RuleArgs ==
    [link_extractor : Extractors, callback : TemplateValues,
     cb_kwargs : {NoRef, 1, 2}, follow : FollowArgs,
     process_links : TemplateValues]

InitRule ==
    \E a \in RuleArgs :
        /\ declared = <<a>>
        /\ rules = <<>>
        /\ heap = ClassHeap
        /\ _rules = [i \in Instances |-> <<>>]
        /\ constructed = {}
        /\ settings = "unset"
        /\ hook = "default"
        /\ mutations = 0
        /\ last = NoCall
        /\ running = <<>>

\* Rule(link_extractor, callback, cb_kwargs, follow, process_links)
NewRule ==
    /\ rules = <<>>
    /\ LET made == RuleInit(heap, declared[1])
       IN /\ rules' = <<made.rule>>
          /\ heap' = made.heap
    /\ UNCHANGED <<declared, _rules, constructed, settings, hook, mutations,
                   last, running>>

NextRule == NewRule

SpecRule == InitRule /\ [][NextRule]_vars

----------------------------------------------------------------------------
(* The class body, the construction of two spiders of the class, and a     *)
(* write to a compiled rule of one of them.                                *)

\* A rule names a callback or a link processor, not both, here.
CompileArgs ==
    {a \in [link_extractor : {"le_a"}, callback : TemplateValues,
            cb_kwargs : {NoRef, 1}, follow : {"None"},
            process_links : TemplateValues] :
        a.callback = None \/ a.process_links = None}

InitCompile ==
    /\ declared = <<>>
    /\ rules = <<>>
    /\ heap = ClassHeap
    /\ _rules = [i \in Instances |-> <<>>]
    /\ constructed = {}
    /\ settings = "unset"
    /\ hook = "default"
    /\ mutations = 0
    /\ last = NoCall
    /\ running = <<>>

\* One more Rule(...) in the class body.
DeclareRule(a) ==
    /\ constructed = {}
    /\ Len(declared) < MaxRules
    /\ LET made == RuleInit(heap, a)
       IN /\ rules' = Append(rules, made.rule)
          /\ heap' = made.heap
    /\ declared' = Append(declared, a)
    /\ UNCHANGED <<_rules, constructed, settings, hook, mutations, last, running>>

\* CrawlSpider.__init__, lines 55-58, of spider i (spider 1 first)
Construct(i) ==
    /\ i \notin constructed
    /\ \A j \in Instances : j < i => j \in constructed
    /\ _rules' = [_rules EXCEPT ![i] = _compile_rules(rules)]
    /\ constructed' = constructed \cup {i}
    /\ UNCHANGED <<heap, declared, rules, settings, hook, mutations, last, running>>

\* spider_i._rules[k].callback = v, or .follow = b
SetRuleField(i, k, field, v) ==
    /\ constructed = Instances
    /\ mutations < MaxMutations
    /\ k \in DOMAIN _rules[i]
    /\ _rules' = [_rules EXCEPT ![i][k][field] = v]
    /\ _rules' # _rules
    /\ mutations' = mutations + 1
    /\ UNCHANGED <<heap, declared, rules, constructed, settings, hook, last, running>>

\* spider_i._rules[k].cb_kwargs[key] = v
SetKwarg(i, k, key, v) ==
    /\ constructed = Instances
    /\ mutations < MaxMutations
    /\ k \in DOMAIN _rules[i]
    /\ LET ref == _rules[i][k].cb_kwargs
           old == heap[ref]
           new == [x \in DOMAIN old \cup {key} |-> IF x = key THEN v ELSE old[x]]
       IN /\ new # old
          /\ heap' = [heap EXCEPT ![ref] = new]
    /\ mutations' = mutations + 1
    /\ UNCHANGED <<declared, rules, _rules, constructed, settings, hook, last, running>>

\* A write to a field of a compiled rule of spider i.
FieldWrite(i) ==
    \E k \in 1..MaxRules :
        \/ \E v \in {None, Func("standalone")} : SetRuleField(i, k, "callback", v)
        \/ \E b \in BOOLEAN : SetRuleField(i, k, "follow", b)

\* A write to the contents of the cb_kwargs of a compiled rule of spider i.
DictWrite(i) ==
    \E k \in 1..MaxRules, key \in Keys, v \in KwVals : SetKwarg(i, k, key, v)

\* A write made through the compiled rules of spider i.
WriteThrough(i) == FieldWrite(i) \/ DictWrite(i)

NextCompile ==
    \/ \E a \in CompileArgs : DeclareRule(a)
    \/ \E i \in Instances : Construct(i)
    \/ \E i \in Instances : WriteThrough(i)

SpecCompile == InitCompile /\ [][NextCompile]_vars

----------------------------------------------------------------------------
(* Properties *)

Handled == last.op \in {"parse", "deliver"}
MyRules == _rules[1]
IsRequest(x) == x.type = "request"
IsItem(x) == x.type = "item"
LinkOf(r) == [url |-> r.url, text |-> r.link_text]
Continuation(x) ==
    [callback |-> x.callback, cb_kwargs |-> x.cb_kwargs, follow |-> x.follow]
Min(S) == CHOOSE k \in S : \A j \in S : k <= j

\* C1: in one call of _requests_to_follow, a link in the resulting link list
\* of rule i is in the candidate list of no later rule j; and when no rule has
\* a link processor, every request carries the continuation of the first rule
\* whose extractor has the link in scope (/a/x goes to R1, /b/y to R2).
C1_FirstRuleWins ==
    last.op = "collect" =>
        LET t == last.col.trace
            reqs == last.col.requests
        IN /\ \A i \in DOMAIN t : \A j \in DOMAIN t :
                 i < j => Range(t[i].links) \cap Range(t[j].candidates) = {}
           /\ (\A k \in DOMAIN MyRules : MyRules[k].process_links = None) =>
                 \A n \in DOMAIN reqs :
                    LET first == Min({k \in DOMAIN MyRules :
                                        matches(MyRules[k].link_extractor, reqs[n].url)})
                    IN Continuation(reqs[n]) = Continuation(MyRules[first])

\* R1 = le_a without callback, R2 = le_ab with callback, a page with /a/x and
\* /b/y: two requests, the first with R1's continuation, the second with R2's.
C1_Witness ==
    /\ last.op = "collect"
    /\ Len(MyRules) = 2
    /\ MyRules[1].link_extractor = "le_a" /\ MyRules[2].link_extractor = "le_ab"
    /\ MyRules[1].process_links = None /\ MyRules[2].process_links = None
    /\ MyRules[1].callback = None /\ MyRules[2].callback # None
    /\ last.response.links = <<Link("/a/x"), Link("/b/y")>>
    /\ Len(last.res) = 2
    /\ last.res[1].url = "/a/x" /\ last.res[1].callback = None
    /\ last.res[2].url = "/b/y" /\ last.res[2].callback # None

\* C2: the list _requests_to_follow returns holds no two requests for the
\* same link.
C2_UniqueRequests ==
    last.op = "collect" =>
        \A m \in DOMAIN last.res : \A n \in DOMAIN last.res :
            m # n => LinkOf(last.res[m]) # LinkOf(last.res[n])

\* C3: parse uses the callback and cb_kwargs of the first rule, in declared
\* order, whose callback is not None and whose extractor matches the url of
\* the response, and None with an empty mapping when there is no such rule.
C3_DispatchPriority ==
    last.op = "parse" =>
        LET hits == {k \in DOMAIN MyRules :
                        /\ MyRules[k].callback # None
                        /\ matches(MyRules[k].link_extractor, last.response.url)}
        IN IF hits = {}
           THEN last.callback = None /\ Deref(heap, last.cb_kwargs) = EmptyDict
           ELSE /\ last.callback = MyRules[Min(hits)].callback
                /\ last.cb_kwargs = MyRules[Min(hits)].cb_kwargs

\* The part of C3 that the code keeps: when every compiled callback is a
\* callable or None, parse uses the first rule whose callback is not None and
\* whose extractor matches.
C3_DispatchAmongResolved ==
    (/\ last.op = "parse"
     /\ \A k \in DOMAIN MyRules :
           callable(MyRules[k].callback) \/ MyRules[k].callback = None) =>
        LET hits == {k \in DOMAIN MyRules :
                        /\ MyRules[k].callback # None
                        /\ matches(MyRules[k].link_extractor, last.response.url)}
        IN IF hits = {}
           THEN last.callback = None /\ Deref(heap, last.cb_kwargs) = EmptyDict
           ELSE /\ last.callback = MyRules[Min(hits)].callback
                /\ last.cb_kwargs = MyRules[Min(hits)].cb_kwargs

\* C4: a call with follow true, the setting on and a callback that is not
\* None returns the follow-requests, in the order of the collector, and then
\* what process_results made of the results of the callback.
C4_ResultOrder ==
    (/\ Handled
     /\ last.follow /\ getbool(settings, TRUE)
     /\ last.callback # None
     /\ ~last.raised) =>
        LET reqs == _requests_to_follow(MyRules, last.response).requests
            n == Len(reqs)
        IN /\ Len(last.res) >= n
           /\ SubSeq(last.res, 1, n) = reqs
           /\ SubSeq(last.res, n + 1, Len(last.res)) = last.pr_out
           /\ last.called =>
                 last.pr_out = process_results(hook, last.cb_res, last.response)
           /\ \A i \in DOMAIN last.res : \A j \in DOMAIN last.res :
                 (IsItem(last.res[i]) /\ IsRequest(last.res[j])) => j < i

\* Two follow-requests, then the two items of the callback.
C4_Witness ==
    /\ Handled /\ last.follow /\ getbool(settings, TRUE) /\ ~last.raised
    /\ hook = "default"
    /\ Len(last.res) = 4
    /\ IsRequest(last.res[1]) /\ IsRequest(last.res[2])
    /\ last.res[1] # last.res[2]
    /\ IsItem(last.res[3]) /\ last.res[3].id = "I1"
    /\ IsItem(last.res[4]) /\ last.res[4].id = "I2"

\* C5: a request the collector builds under rule R carries R's callback,
\* cb_kwargs and follow; its response is handled with those three values and
\* not with what the dispatcher would choose; so it yields no follow-request
\* when the follow it carries is false, and no callback result when the
\* callback it carries is None.
C5_Continuation ==
    Handled =>
        /\ \A n \in DOMAIN last.col.requests :
              Continuation(last.col.requests[n]) =
                  Continuation(MyRules[last.col.owners[n]])
        /\ last.op = "deliver" =>
              /\ Continuation(last) = Continuation(last.via)
              /\ ~last.via.follow =>
                    ~last.collected /\ \A n \in DOMAIN last.res : ~IsRequest(last.res[n])
              /\ last.via.callback = None => ~last.called /\ last.res = last.col.requests

\* The response of a request of a rule with a callback and follow false: its
\* page has links in scope of a rule (parse, which passes follow=True, would
\* return requests for them), and the batch is the two items alone.
C5_Witness ==
    /\ last.op = "deliver"
    /\ ~last.via.follow /\ last.via.callback = Func("parse_item")
    /\ last.via.cb_kwargs = 1
    /\ getbool(settings, TRUE)
    /\ _requests_to_follow(MyRules, last.response).requests # <<>>
    /\ Len(last.res) = 2 /\ IsItem(last.res[1])
    /\ last.res[1].kwargs = heap[1]

\* C6: with CRAWLSPIDER_FOLLOW_LINKS false, no call runs the collector and no
\* batch holds a follow-request, whatever follow is; a callable callback is
\* still called and its results, through process_results, are the batch.
C6_KillSwitch ==
    (Handled /\ settings = "False") =>
        /\ ~last.collected
        /\ last.col = NoCollect
        /\ \A n \in DOMAIN last.res : ~IsRequest(last.res[n])
        /\ callable(last.callback) =>
              /\ last.called /\ ~last.raised
              /\ last.res = process_results(hook, last.cb_res, last.response)

\* The setting is false, follow is true, the page has links in scope of the
\* rules, and the batch is the two items of the callback.
C6_Witness ==
    /\ last.op = "parse" /\ settings = "False" /\ last.follow
    /\ \E k \in DOMAIN MyRules : MyRules[k].follow
    /\ _requests_to_follow(MyRules, last.response).requests # <<>>
    /\ hook = "default"
    /\ Len(last.res) = 2 /\ IsItem(last.res[1]) /\ IsItem(last.res[2])

\* C7: a rule constructed without follow has follow true when no callback is
\* given and false when one is; a follow that is given is kept, whatever the
\* callback.
C7_FollowDefault ==
    rules # <<>> =>
        LET a == declared[1]
            r == rules[1]
        IN /\ a.follow = "None" => r.follow = (a.callback = None)
           /\ a.follow = "True" => r.follow = TRUE
           /\ a.follow = "False" => r.follow = FALSE

\* Rule(le, callback='parse_item'): follow is False.
C7_Witness ==
    /\ rules # <<>>
    /\ declared[1].follow = "None" /\ declared[1].callback = Str("parse_item")
    /\ rules[1].follow = FALSE

\* C8: process_results is given the results of the callback and the response,
\* never the follow-requests; what it returns is the part of the batch after
\* the follow-requests, and the follow-requests at the front of the batch are
\* the same whichever process_results the spider has.
C8_HookFrame ==
    (Handled /\ last.pr_called) =>
        /\ last.pr_in = last.cb_res
        /\ last.pr_response = last.response
        /\ \A m \in DOMAIN last.pr_in : ~IsRequest(last.pr_in[m])
        /\ LET n == Len(last.col.requests)
           IN /\ SubSeq(last.res, 1, n) = last.col.requests
              /\ SubSeq(last.res, n + 1, Len(last.res)) =
                    process_results(hook, last.cb_res, last.response)
              /\ \A hk \in Hooks :
                    LET other == _response_downloaded(heap, MyRules, settings, hk,
                                                    last.response, last.callback,
                                                    last.cb_kwargs, last.follow)
                    IN SubSeq(other.res, 1, n) = SubSeq(last.res, 1, n)

\* The overriding process_results gets [I1, I2] and returns [I2]: the batch
\* is the follow-requests and I2.
C8_Witness ==
    /\ Handled /\ last.pr_called /\ hook = "keep_last"
    /\ Len(last.pr_in) = 2 /\ last.pr_in[1].id = "I1" /\ last.pr_in[2].id = "I2"
    /\ last.col.requests # <<>>
    /\ Len(last.res) = Len(last.col.requests) + 1
    /\ last.res[Len(last.res)].id = "I2"

----------------------------------------------------------------------------
(* What a reader of the rules sees: each rule with the contents of its     *)
(* cb_kwargs in place of the reference.                                    *)

View(rs, h) == [k \in DOMAIN rs |-> [rs[k] EXCEPT !.cb_kwargs = h[rs[k].cb_kwargs]]]
TemplateView == View(rules, heap)
InstanceView(i) == View(_rules[i], heap)

\* C9: a write made through the compiled rules of one spider (to a field of
\* a rule, or to the contents of its cb_kwargs) changes neither the rules of
\* the class nor the compiled rules of another spider of the class.
C9_InstanceIsolation ==
    [][\A i \in Instances :
          WriteThrough(i) =>
              /\ TemplateView' = TemplateView
              /\ \A j \in Instances \ {i} : InstanceView(j)' = InstanceView(j)]_vars

\* The part of C9 that is about fields: a write to a field of a compiled rule
\* of one spider changes neither the class's rules nor another spider's.
C9_FieldWritesIsolated ==
    [][\A i \in Instances :
          FieldWrite(i) =>
              /\ TemplateView' = TemplateView
              /\ \A j \in Instances \ {i} : InstanceView(j)' = InstanceView(j)]_vars

\* C10: after _compile_rules, callback and process_links of every compiled
\* rule are a callable or None; a callable of the template is kept, and a
\* name that is no attribute of the spider gives None.
C10_ResolvedOrNone ==
    \A i \in constructed :
        mutations = 0 =>
            \A k \in DOMAIN _rules[i] :
                \A f \in {"callback", "process_links"} :
                    LET t == rules[k][f]
                        c == _rules[i][k][f]
                    IN /\ callable(c) \/ c = None
                       /\ callable(t) => c = t
                       /\ (IsString(t) /\ t.id \notin SpiderMethods \cup SpiderData)
                             => c = None

\* The part of C10 that the code keeps: callables are kept, None stays None,
\* an unknown name gives None, and a name of a method gives the method.
C10_Resolution ==
    \A i \in constructed :
        mutations = 0 =>
            \A k \in DOMAIN _rules[i] :
                \A f \in {"callback", "process_links"} :
                    LET t == rules[k][f]
                        c == _rules[i][k][f]
                    IN /\ callable(t) => c = t
                       /\ t = None => c = None
                       /\ (IsString(t) /\ t.id \in SpiderMethods) => c = Func(t.id)
                       /\ (IsString(t) /\ t.id \notin SpiderMethods \cup SpiderData)
                             => c = None

----------------------------------------------------------------------------
(* The class body, the construction of the spiders and the handlers of     *)
(* spider 1; nothing writes to a compiled rule.                            *)

\* The Rule(...) calls of these class bodies: those of CompileArgs without
\* keyword arguments, with any callback or with the link processor
\* 'parse_item'.
FixedArgs ==
    {a \in CompileArgs :
        /\ a.cb_kwargs = NoRef
        /\ a.process_links \in {None, Str("parse_item")}}

\* The class body, the constructors, and the handlers of spider 1 once it is
\* constructed.
NextFixed ==
    \/ \E a \in FixedArgs : DeclareRule(a)
    \/ \E i \in Instances : Construct(i)
    \/ \E url \in Urls, page \in CrawlPages :
          1 \in constructed /\ Parse([url |-> url, links |-> page])
    \/ \E n \in 1..(MaxRules * Cardinality(Links)), page \in CrawlPages :
          1 \in constructed /\ Deliver(n, page)
    \/ \E page \in CrawlPages :
          1 \in constructed /\ Collect([url |-> "/a/x", links |-> page])

SpecFixed == InitCompile /\ [][NextFixed]_vars

----------------------------------------------------------------------------
(* Properties of the second group *)

\* C11: a second call of _requests_to_follow returns what a first call on its
\* response returns: the same sequence as the call before when the response
\* is the same, and a request for every link a first call requests, whatever
\* the call before has seen.
C11_Idempotent ==
    last.op = "collect again" =>
        /\ last.response = last.before.response => last.res = last.before.requests
        /\ last.res = CollectFrom(MyRules, last.response, 1, NoCollect).requests
        /\ last.col.trace # <<>> =>
               last.col.trace[1].candidates = last.col.trace[1].extracted

\* The second call on the same response returns the same two requests.
C11_Witness ==
    /\ last.op = "collect again"
    /\ last.response = last.before.response
    /\ Len(last.before.requests) = 2
    /\ last.res = last.before.requests

\* C12: parse hands the response to _response_downloaded with follow true,
\* with a selected rule and without one; with the toggle on the collector
\* runs and, when the call returns, its requests open the batch, also when
\* the follow flag of the selected rule is false.
C12_TopLevelFollows ==
    last.op = "parse" =>
        /\ last.follow
        /\ getbool(settings, TRUE) =>
              /\ last.collected
              /\ last.col = _requests_to_follow(MyRules, last.response)
              /\ ~last.raised =>
                    SubSeq(last.res, 1, Len(last.col.requests)) = last.col.requests

\* parse selected a rule whose follow flag is false and the batch carries a
\* follow-request.
C12_Witness ==
    /\ last.op = "parse"
    /\ ~last.raised
    /\ ParseSelect(MyRules, last.response.url) # 0
    /\ ~MyRules[ParseSelect(MyRules, last.response.url)].follow
    /\ last.col.requests # <<>>
    /\ IsRequest(last.res[1])

\* Rule i ran its processor and the processor's output lacks the candidate l.
Dropped(t, i, l) ==
    /\ t[i].pl_called
    /\ l \in Range(t[i].candidates)
    /\ l \notin Range(t[i].links)

\* The links the rules before rule k ended with.
ClaimedBefore(t, k) == UNION {Range(t[j].links) : j \in 1..(k - 1)}

\* What C13 says of each rule of a call of the collector: its candidates are
\* its extracted links that no earlier rule ended with, the processor runs
\* only for a rule that has one and has candidates, on exactly the
\* candidates, and its output is the rule's resulting list.
ProcessorOnCandidates(t) ==
    \A k \in DOMAIN t :
        /\ t[k].candidates = FilterSeen(t[k].extracted, ClaimedBefore(t, k))
        /\ t[k].pl_called =>
              /\ MyRules[k].process_links # None
              /\ t[k].candidates # <<>>
              /\ ~last.raised =>
                    t[k].links = CallProcessLinks(MyRules[k].process_links,
                                                  t[k].candidates).value
        /\ ~t[k].pl_called => t[k].links = t[k].candidates

\* C13 as stated: the processor runs only for a rule that has one and has
\* candidates, on exactly the candidates, and a link the processor of rule i
\* dropped is a candidate for every later rule that extracts it.
C13_DroppedStaysCandidate ==
    last.op = "collect" =>
        LET t == last.col.trace
        IN /\ ProcessorOnCandidates(t)
           /\ \A i \in DOMAIN t, j \in DOMAIN t, l \in Links :
                 (i < j /\ Dropped(t, i, l) /\ l \in Range(t[j].extracted)) =>
                     l \in Range(t[j].candidates)

\* C13, amended: the processor runs only for a rule that has one and has
\* candidates, on exactly the candidates, and a link the processor of rule i
\* dropped is a candidate for a later rule j that extracts it unless a rule
\* between i and j ended with it.
C13_LinkProcessing ==
    last.op = "collect" =>
        LET t == last.col.trace
        IN /\ ProcessorOnCandidates(t)
           /\ \A i \in DOMAIN t, j \in DOMAIN t, l \in Links :
                 (/\ i < j /\ Dropped(t, i, l) /\ l \in Range(t[j].extracted)
                  /\ \A m \in (i + 1)..(j - 1) : l \notin Range(t[m].links)) =>
                     l \in Range(t[j].candidates)

\* The processor of rule 1 dropped a link, rule 2 extracts it, has it as a
\* candidate and requests it.
C13_Witness ==
    /\ last.op = "collect"
    /\ Len(last.col.trace) >= 2
    /\ \E l \in Links :
          /\ Dropped(last.col.trace, 1, l)
          /\ l \in Range(last.col.trace[2].candidates)
          /\ \E n \in DOMAIN last.res :
                LinkOf(last.res[n]) = l /\ last.col.owners[n] = 2

RECURSIVE InRuleOrder(_, _, _)
\* The requests for the resulting lists of rules k.. of the trace t: those of
\* rule k in the order of its list, then those of the later rules.
InRuleOrder(rs, t, k) ==
    IF k > Len(t) THEN <<>>
    ELSE [i \in DOMAIN t[k].links |-> BuildRequest(t[k].links[i], rs[k])]
         \o InRuleOrder(rs, t, k + 1)

\* C14: the follow-requests are those of rule 1, then those of rule 2 and so
\* on, each rule's in the order of its resulting link list.
C14_RequestOrder ==
    (last.op = "collect" /\ ~last.raised) =>
        /\ last.res = InRuleOrder(MyRules, last.col.trace, 1)
        /\ \A m \in DOMAIN last.res, n \in DOMAIN last.res :
              m < n => last.col.owners[m] <= last.col.owners[n]

\* Rule 1 ends with one link and rule 2 with two different ones, in the
\* order its processor returned them: three requests, in that order.
C14_Witness ==
    /\ last.op = "collect"
    /\ Len(last.res) = 3
    /\ last.col.owners = <<1, 2, 2>>
    /\ last.col.trace[2].pl_called
    /\ LinkOf(last.res[2]) # LinkOf(last.res[3])
    /\ last.col.trace[2].links = <<LinkOf(last.res[2]), LinkOf(last.res[3])>>

\* C15: a callback that is not None and returns None or an empty list gives
\* no results: process_results is called with the empty sequence and the
\* response and the call returns; with the callback None process_results is
\* not called and the batch is the follow-requests, none when follow is
\* false.
C15_EmptyResults ==
    Handled =>
        LET ret == CallCallback(last.callback, last.response, last.kwargs)
        IN /\ (/\ last.callback # None /\ ~last.col.raised
               /\ ~ret.raised /\ (ret.none \/ ret.value = <<>>)) =>
                  /\ last.called /\ last.cb_res = <<>>
                  /\ last.pr_called /\ last.pr_in = <<>>
                  /\ last.pr_response = last.response
                  /\ ~last.raised
                  /\ last.res = last.col.requests
                                \o process_results(hook, <<>>, last.response)
           /\ last.callback = None =>
                  /\ ~last.called /\ ~last.pr_called /\ ~last.raised
                  /\ last.res = last.col.requests
                  /\ last.col = IF last.follow /\ getbool(settings, TRUE)
                                THEN _requests_to_follow(MyRules, last.response)
                                ELSE NoCollect
                  /\ ~last.follow => last.res = <<>>

\* A callback returned None, the hook ran on the empty sequence and the batch
\* is the follow-requests alone.
C15_Witness ==
    /\ Handled
    /\ last.called /\ last.cb_none
    /\ last.pr_called /\ last.pr_in = <<>>
    /\ ~last.raised
    /\ last.res = last.col.requests /\ last.res # <<>>

\* The spider as its class body and constructor made it.
AsConstructed ==
    LET class == Declare(declared)
    IN [heap |-> class.heap, rules |-> class.rules,
        _rules |-> _compile_rules(class.rules)]

\* C16: when an extractor, a link processor or the callback raises, the call
\* of _response_downloaded raises that error and returns no batch, whatever
\* the collector had gathered; the compiled rules stay as constructed and a
\* later top-level response is handled as on a spider that has handled
\* nothing.
C16_FailurePropagates ==
    /\ Handled =>
          LET t == last.col.trace
              ret == CallCallback(last.callback, last.response, last.kwargs)
          IN /\ \A k \in DOMAIN t :
                   /\ ExtractRaises(MyRules[k].link_extractor) =>
                         /\ last.raised /\ k = Len(t)
                         /\ last.error = ErrorOf(MyRules[k].link_extractor)
                   /\ (t[k].pl_called
                       /\ CallProcessLinks(MyRules[k].process_links,
                                           t[k].candidates).raised) =>
                         /\ last.raised /\ k = Len(t)
                         /\ last.error = CallProcessLinks(MyRules[k].process_links,
                                                          t[k].candidates).error
             /\ (last.called /\ ret.raised) =>
                   last.raised /\ last.error = ret.error
             /\ last.raised => last.res = <<>> /\ ~last.pr_called
    /\ heap = AsConstructed.heap
    /\ rules = AsConstructed.rules
    /\ MyRules = AsConstructed._rules
    /\ last.op = "parse" =>
          last.res = parse(AsConstructed.heap, AsConstructed._rules, settings,
                           hook, last.response).res

\* After a call that raised, a top-level response whose callback raises: the
\* follow-requests the collector had gathered are not returned.
C16_Witness ==
    /\ last.op = "parse"
    /\ last.before # NoBefore
    /\ last.raised /\ last.error = ErrorOf("parse_raise")
    /\ last.col.requests # <<>>
    /\ last.res = <<>>

\* C17: in interleaved calls of the collector each call has its own seen
\* set: after every pass a call's locals are what the same passes give when
\* the call runs alone, and the call returns the requests it returns alone,
\* whatever the other call has claimed.
C17_Independent ==
    \A c \in DOMAIN running :
        LET me == running[c]
        IN /\ me.at = "loop" =>
                 me.st = CollectFrom(SubSeq(MyRules, 1, me.k - 1), me.response,
                                     1, NoCollect)
           /\ me.at = "returned" =>
                 me.res = _requests_to_follow(MyRules, me.response).requests

\* A call returned a request for a link that the other call, still in its
\* loop, had claimed before this call came to it.
C17_Witness ==
    \E c \in DOMAIN running, d \in DOMAIN running :
        /\ c # d
        /\ running[c].at = "returned"
        /\ running[d].at = "loop"
        /\ \E n \in DOMAIN running[c].res :
              /\ LinkOf(running[c].res[n]) \in running[c].met
              /\ LinkOf(running[c].res[n]) \in running[d].st.seen

\* C18: a compiled rule differs from its template in callback and
\* process_links only: follow, cb_kwargs and link_extractor are the
\* template's (a rule whose named callback resolved to None keeps the follow
\* its constructor worked out from the name, false), and the calls of parse,
\* _response_downloaded and _requests_to_follow leave the template and the
\* compiled rules, their order and fields, as the constructor made them.
C18_CompileFrame ==
    /\ rules = AsConstructed.rules
    /\ \A i \in constructed :
          /\ Len(_rules[i]) = Len(rules)
          /\ _rules[i] = AsConstructed._rules
          /\ \A k \in DOMAIN rules :
                /\ _rules[i][k].follow = rules[k].follow
                /\ _rules[i][k].cb_kwargs = rules[k].cb_kwargs
                /\ _rules[i][k].link_extractor = rules[k].link_extractor
                /\ _rules[i][k].follow =
                      RuleInitFollow(declared[k].callback, declared[k].follow)
                /\ (IsString(declared[k].callback)
                    /\ _rules[i][k].callback = None) => ~_rules[i][k].follow

\* The response of a request of a rule whose named callback resolved to None
\* was handled: the request carried no callback and follow false, and the
\* rule is still so.
C18_Witness ==
    /\ last.op = "deliver"
    /\ last.via.callback = None /\ ~last.via.follow
    /\ last.res = <<>>
    /\ \E k \in DOMAIN MyRules :
          /\ IsString(declared[k].callback)
          /\ MyRules[k].callback = None /\ ~MyRules[k].follow

====
